---- MODULE Spec2Model ----
(***************************************************************************)
(* Rewriter: the generation-service client (retry and backoff), the batch  *)
(* processor (batch path and sequential fallback) and the analysis run of  *)
(* the style extractor, as state machines.                                 *)
(*                                                                         *)
(* Texts are sequences of tokens (the empty text is <<>>); a message is a  *)
(* sequence of content blocks.  Delays are whole seconds.                  *)
(*                                                                         *)
(* SpecComplete follows one complete call answer by answer.  Spec follows  *)
(* the analysis runs over one store; there a complete call is one step     *)
(* that ends in one of the outcomes SpecComplete reaches (CompleteOutcome):*)
(* a text is returned, or an exception is raised.                          *)
(***************************************************************************)
EXTENDS Integers, Sequences, FiniteSets, TLC

VARIABLES
    \* ---- LLMClient.complete: one call in progress
    cstate,          \* "idle" | "calling" | "returned" | "raised"
    attempt,         \* the loop variable of `for attempt in range(MAX_RETRIES)`
    responses,       \* what the service answered to each messages.create of this call
    delays,          \* the delays slept by this call, in order
    usage,           \* the usage counter of the client in use
    result,          \* the text the call returned
    error,           \* the exception the call raised: "none" | "api" | "runtime"
    \* ---- StyleExtractor.run / BatchProcessor: the run in progress
    pc,              \* position of the run
    resume,          \* the run's resume flag
    use_batch,       \* the run's use_batch flag
    requests,        \* custom ids of the requests built by _analyze_chunks
    results,         \* the results mapping under construction / returned
    pending,         \* outcomes of the ended job not yet yielded by results()
    seen,            \* outcomes yielded so far, in order
    polls,           \* number of non-terminal polls slept through
    processing_status, \* batch.processing_status at the last poll ("none" before it)
    waited,          \* seconds slept by wait_for_batch
    i,               \* loop index of fallback_sequential / of the save loop
    analyses,        \* chunk_analyses handed to _synthesize
    md,              \* the free-form text returned by the first synthesis call
    \* ---- CorpusStore (persistent)
    chunk_analyses,  \* rows of table chunk_analyses, in insertion order
    style_guide,     \* rows of table style_guide, in insertion order
    \* ---- history
    runs,            \* number of runs started
    sample_chunks,   \* number of chunks of the sample of the run started last
    map_calls,       \* map-phase service requests of this run (batch submissions, chunk calls)
    paces,           \* pacing sleeps of fallback_sequential in this run
    issued,          \* custom ids fallback_sequential has called complete for, in order
    existing,        \* what get_chunk_analyses returned to a resumed run
    stored_at_start, \* rows of chunk_analyses when the run started
    batch_error,     \* submit_and_wait raised in this run
    source,          \* where results came from: "none" | "batch" | "fallback"
    failure,         \* what made the run raise: "none" | "batch" | "fallback" | "synthesis"
    raised,          \* the exception of complete that did: "none" | "api" | "runtime"
    \* ---- StyleExtractor._synthesize, from the structured-record answer on
    json_text,       \* the text the structured-record call returned
    structured,      \* what _parse_json returned
    synth,           \* "off" | "called" | "returned" | "raised" (ValidationError)
    \* ---- sampler.chunk_articles: one call
    docs,            \* the articles passed in
    max_tokens,      \* settings.chunk_max_tokens
    max_per_chunk,   \* settings.chunk_articles
    chunks,          \* the list returned
    chunker,         \* "off" | "called" | "returned" | "raised"
    \* ---- sampler.stratified_sample: one call
    corpus,          \* the articles passed in: how many of each category
    sample_fraction, \* settings.sample_fraction, in hundredths
    sample,          \* the articles of the list returned
    allocated,       \* len(selected) when the loop over the categories ends
    sampler,         \* "off" | "called" | "returned" | "raised"
    \* ---- CorpusStore and ExampleSelector: example selection and retrieval
    articles,        \* ids of the rows of table articles
    examples,        \* rows of table examples, in insertion order
    model_file,      \* the model persisted at settings.tfidf_model_path
    loaded,          \* the model the selector holds in memory
    retrieval,       \* the last call, if find_similar: n, the articles whose
                     \* vectors were compared, their similarities, the result
    selection,       \* the last call, if build_clusters: the list returned,
                     \* the number of rows its DELETE removed
    op,              \* how the last call ended: "none" | "import" | "new" |
                     \* "built" | "build_raised" | "found" | "find_raised"
    \* ---- RewriteEngine
    md_file,         \* the file at settings.style_guide_md_path
    llm_calls,       \* complete_cached calls made by the engine
    style_guide_md,  \* the guide text the last rewrite loaded for its prompt
    rewrite          \* "off" | "ready" | how the last rewrite ended

poll_vars == <<polls, processing_status, waited>>
client_vars == <<cstate, attempt, responses, delays, usage, result, error>>
run_vars == <<pc, resume, use_batch, requests, results, pending, seen, poll_vars, i,
              analyses, md>>
store_vars == <<chunk_analyses, style_guide>>
hist_vars == <<runs, sample_chunks, map_calls, paces, issued, existing, stored_at_start,
               batch_error, source, failure, raised>>
main_vars == <<client_vars, run_vars, store_vars, hist_vars>>
parse_vars == <<json_text, structured, synth>>
chunker_vars == <<docs, max_tokens, max_per_chunk, chunks, chunker>>
sampler_vars == <<corpus, sample_fraction, sample, allocated, sampler>>
examples_vars == <<articles, examples, model_file, loaded, retrieval, selection, op>>
rewrite_vars == <<md_file, llm_calls, style_guide_md, rewrite>>
pure_vars == <<parse_vars, chunker_vars, sampler_vars>>
aux_vars == <<pure_vars, examples_vars, rewrite_vars>>
vars == <<main_vars, aux_vars>>

----------------------------------------------------------------------------
(* Bounds of the model *)

\* rate-limit answers that carry a retry-after hint, per complete call
MaxHinted == 2
\* server-error answers, per complete call
MaxServerErrors == 2
\* chunks (requests) of one run
MaxChunks == 2
\* analysis runs in one behaviour
MaxRuns == 2
\* non-terminal polls of one batch job
MaxPolls == 2
\* tokens of a structured-record answer
MaxTextLen == 4
\* articles passed to the chunker
MaxDocs == 4
\* token estimate of one article
MaxDocTokens == 3
\* token budget of a chunk
MaxBudget == 3
\* item cap of a chunk
MaxCap == 2
\* articles of a corpus passed to the sampler
MaxCorpus == 12
\* primary categories of a corpus
MaxCategories == 3
\* articles of the store the examples are selected from
MaxArticles == 2
\* settings.n_clusters
MaxClusters == 2
\* the count n asked of find_similar
MaxN == 2
\* generation calls of one rewrite engine
MaxRewrites == 2

(* Program constants *)

MAX_RETRIES == 10
BASE_DELAY == 2
MAX_DELAY == 120
POLL_INTERVAL == 30

----------------------------------------------------------------------------
(* Values *)

Min(a, b) == IF a <= b THEN a ELSE b
Max(a, b) == IF a >= b THEN a ELSE b

RECURSIVE Pow2(_)
Pow2(n) == IF n = 0 THEN 1 ELSE 2 * Pow2(n - 1)

EmptyText == <<>>

TextBlock(t) == [type |-> "text", text |-> t]
OtherBlock == [type |-> "tool_use", text |-> EmptyText]

\* message contents the service may answer with
Messages ==
    { << TextBlock(<<"a">>), OtherBlock, TextBlock(<<"b">>) >>,
      << OtherBlock >> }

\* the retry-after header of a rate-limit answer: absent, or a number of seconds
NoHint == <<>>
RetryAfter == { NoHint, <<30>>, <<300>> }

----------------------------------------------------------------------------
(* LLMClient *)

\* _extract_text: the text of the first text block, "" when there is none
RECURSIVE _extract_text(_)
_extract_text(content) ==
    IF content = <<>> THEN EmptyText
    ELSE IF Head(content).type = "text" THEN Head(content).text
    ELSE _extract_text(Tail(content))

BackoffUncapped(a) == BASE_DELAY * Pow2(a)

\* delay = min(BASE_DELAY * (2 ** attempt), MAX_DELAY)
Backoff(a) == Min(BASE_DELAY * Pow2(a), MAX_DELAY)

RateLimitDelayFromHint(a, ra) ==
    IF ra # NoHint THEN ra[1] ELSE Backoff(a)

\* the RateLimitError branch: the backoff, raised to the retry-after header
RateLimitDelay(a, ra) ==
    IF ra # NoHint THEN Max(Backoff(a), ra[1]) ELSE Backoff(a)

RetryableClientErrors(status) == status >= 400

\* the APIStatusError branch: `e.status_code >= 500 or e.status_code == 529`
Retryable(status) == status >= 500 \/ status = 529

\* status codes of the APIStatusError answers drawn (429 is RateLimitError)
ErrorStatuses == {400, 529}

\* an answer of messages.create: status 200 with a message, or the status of
\* the error raised (0: an error without status)
Answer(status, ra, content) ==
    [status |-> status, retry_after |-> ra, content |-> content]

Hinted(rs) == Cardinality({k \in 1..Len(rs) : rs[k].retry_after # NoHint})
ServerErrors(rs) ==
    Cardinality({k \in 1..Len(rs) : rs[k].status # 429 /\ rs[k].status >= 500})

InLoopOffByOne(a) == a < MAX_RETRIES - 1

InLoopOneMore(a) == a <= MAX_RETRIES

\* `for attempt in range(MAX_RETRIES)`: the body runs for this attempt
InLoop(a) == a < MAX_RETRIES

\* a caller enters complete(): the loop starts at attempt 0
BeginCall ==
    /\ cstate' = "calling"
    /\ attempt' = 0
    /\ responses' = <<>>
    /\ delays' = <<>>
    /\ result' = EmptyText
    /\ error' = "none"

\* messages.create answers: usage is tracked, the text is returned
CreateOk(content) ==
    /\ cstate = "calling"
    /\ InLoop(attempt)
    /\ responses' = Append(responses, Answer(200, NoHint, content))
    /\ usage' = usage + 1
    /\ result' = _extract_text(content)
    /\ cstate' = "returned"
    /\ UNCHANGED <<attempt, delays, error>>

\* messages.create raises RateLimitError: sleep, next attempt
CreateRateLimit(ra) ==
    /\ cstate = "calling"
    /\ InLoop(attempt)
    /\ ra # NoHint => Hinted(responses) < MaxHinted
    /\ responses' = Append(responses, Answer(429, ra, <<>>))
    /\ delays' = Append(delays, RateLimitDelay(attempt, ra))
    /\ attempt' = attempt + 1
    /\ UNCHANGED <<cstate, usage, result, error>>

\* messages.create raises another APIStatusError: a server error is slept on
\* and retried, any other status propagates
CreateStatusError(status) ==
    /\ cstate = "calling"
    /\ InLoop(attempt)
    /\ status >= 500 => ServerErrors(responses) < MaxServerErrors
    /\ responses' = Append(responses, Answer(status, NoHint, <<>>))
    /\ IF Retryable(status)
       THEN /\ delays' = Append(delays, Backoff(attempt))
            /\ attempt' = attempt + 1
            /\ UNCHANGED <<cstate, error>>
       ELSE /\ cstate' = "raised"
            /\ error' = "api"
            /\ UNCHANGED <<delays, attempt>>
    /\ UNCHANGED <<usage, result>>

\* messages.create raises an exception that is no APIStatusError (a
\* connection error): no except clause matches, it propagates
CreateConnectionError ==
    /\ cstate = "calling"
    /\ InLoop(attempt)
    /\ responses' = Append(responses, Answer(0, NoHint, <<>>))
    /\ cstate' = "raised"
    /\ error' = "api"
    /\ UNCHANGED <<attempt, delays, usage, result>>

\* the loop ran out: raise RuntimeError
Exhausted ==
    /\ cstate = "calling"
    /\ ~InLoop(attempt)
    /\ cstate' = "raised"
    /\ error' = "runtime"
    /\ UNCHANGED <<attempt, responses, delays, usage, result>>

----------------------------------------------------------------------------
(* Mappings (Python dicts) *)

EmptyMap == [x \in {} |-> EmptyText]
Put(m, k, v) == [x \in DOMAIN m \cup {k} |-> IF x = k THEN v ELSE m[x]]
Get(m, k, default) == IF k \in DOMAIN m THEN m[k] ELSE default

Range(s) == {s[k] : k \in 1..Len(s)}

----------------------------------------------------------------------------
(* CorpusStore *)

ChunkAnalysis(chunk_id, text) == [chunk_id |-> chunk_id, analysis_text |-> text]

\* INSERT INTO chunk_analyses, committed at once
save_chunk_analysis(rows, analysis) == Append(rows, analysis)

RECURSIVE InsertByChunkId(_, _)
InsertByChunkId(sorted, row) ==
    IF sorted = <<>> THEN <<row>>
    ELSE IF Head(sorted).chunk_id <= row.chunk_id
         THEN <<Head(sorted)>> \o InsertByChunkId(Tail(sorted), row)
         ELSE <<row>> \o sorted

RECURSIVE OrderByChunkId(_)
OrderByChunkId(rows) ==
    IF rows = <<>> THEN <<>>
    ELSE InsertByChunkId(OrderByChunkId(SubSeq(rows, 1, Len(rows) - 1)), rows[Len(rows)])

get_chunk_analyses_nonempty(rows) ==
    SelectSeq(OrderByChunkId(rows), LAMBDA row : row.analysis_text # EmptyText)

\* SELECT * FROM chunk_analyses ORDER BY chunk_id
get_chunk_analyses(rows) == OrderByChunkId(rows)

\* DELETE FROM chunk_analyses
clear_analyses(rows) == <<>>

StyleGuide(markdown, n_chunks) == [markdown |-> markdown, n_chunks |-> n_chunks]

\* INSERT INTO style_guide
save_style_guide(rows, guide) == Append(rows, guide)

----------------------------------------------------------------------------
(* BatchProcessor *)

\* custom_id = f"chunk_{i}"
CustomId(k) == <<"chunk", k>>

\* the requests _analyze_chunks builds for n chunks
BuildRequests(n) == [k \in 1..n |-> CustomId(k - 1)]

OutcomeTypes == {"succeeded", "errored"}

Outcome(id, type, content) == [custom_id |-> id, type |-> type, content |-> content]

\* text += block.text for every text block of the message
RECURSIVE BatchText(_)
BatchText(content) ==
    IF content = <<>> THEN EmptyText
    ELSE (IF Head(content).type = "text" THEN Head(content).text ELSE EmptyText)
         \o BatchText(Tail(content))

CollectOneSkipFailed(res, event) ==
    IF event.type = "succeeded"
    THEN Put(res, event.custom_id, BatchText(event.content))
    ELSE res

CollectOneErrorText(res, event) ==
    IF event.type = "succeeded"
    THEN Put(res, event.custom_id, BatchText(event.content))
    ELSE Put(res, event.custom_id, <<event.type>>)

\* one iteration of the loop of _collect_results
CollectOne(res, event) ==
    IF event.type = "succeeded"
    THEN Put(res, event.custom_id, BatchText(event.content))
    ELSE Put(res, event.custom_id, EmptyText)

PaceAfterEvery(k, n) == k < n

\* `if i < len(requests) - 1: time.sleep(1)`
PaceAfter(k, n) == k < n - 1

BatchExceptionPropagates == "failed"

\* _analyze_chunks: `except Exception` around submit_and_wait falls back
OnBatchException == "fallback"

----------------------------------------------------------------------------
(* StyleExtractor.run *)

\* what a complete call made by the run comes to: a text, or an exception
\* ("api": a non-retryable error, "runtime": the retries are exhausted)
CompleteTexts == {_extract_text(m) : m \in Messages}
CompleteErrors == {"api", "runtime"}

Running == pc \in {"batch_submit", "batch_poll", "batch_collect", "fallback",
                   "save", "synth_md", "synth_json", "save_files"}

\* the locals of _analyze_chunks are gone
DropLocals ==
    /\ requests' = <<>>
    /\ results' = EmptyMap
    /\ pending' = {}
    /\ seen' = <<>>
    /\ polls' = 0
    /\ processing_status' = "none"
    /\ waited' = 0
    /\ i' = 0

\* the process starts and run(use_batch=b, resume=r) is entered on a sample
\* that splits into n chunks; the action runs to the first service request
StartRun(r, b, n) ==
    /\ ~Running
    /\ runs < MaxRuns
    /\ runs' = runs + 1
    /\ sample_chunks' = n
    /\ resume' = r
    /\ use_batch' = b
    /\ stored_at_start' = chunk_analyses
    /\ results' = EmptyMap
    /\ pending' = {}
    /\ seen' = <<>>
    /\ polls' = 0
    /\ processing_status' = "none"
    /\ waited' = 0
    /\ i' = 0
    /\ md' = EmptyText
    /\ map_calls' = 0
    /\ paces' = 0
    /\ issued' = <<>>
    /\ batch_error' = FALSE
    /\ source' = "none"
    /\ failure' = "none"
    /\ raised' = "none"
    /\ IF r /\ get_chunk_analyses(chunk_analyses) # <<>>
       THEN \* resuming: the map phase is skipped
            /\ existing' = get_chunk_analyses(chunk_analyses)
            /\ analyses' = get_chunk_analyses(chunk_analyses)
            /\ requests' = <<>>
            /\ pc' = "synth_md"
            /\ UNCHANGED chunk_analyses
       ELSE /\ existing' = <<>>
            /\ analyses' = <<>>
            /\ chunk_analyses' = IF r THEN chunk_analyses
                                 ELSE clear_analyses(chunk_analyses)
            /\ requests' = BuildRequests(n)
            /\ pc' = IF b THEN "batch_submit" ELSE "fallback"
    /\ UNCHANGED <<client_vars, style_guide>>

\* the exception of submit_and_wait reaches _analyze_chunks
BatchRaises ==
    /\ batch_error' = TRUE
    /\ pc' = OnBatchException
    /\ failure' = IF OnBatchException = "failed" THEN "batch" ELSE failure
    /\ results' = EmptyMap
    /\ pending' = {}
    /\ seen' = <<>>
    /\ i' = 0

\* submit_batch: batches.create returns the batch id, or raises
SubmitBatch(ok) ==
    /\ pc = "batch_submit"
    /\ map_calls' = map_calls + 1
    /\ IF ok
       THEN /\ pc' = "batch_poll"
            /\ UNCHANGED <<results, pending, seen, i, batch_error, failure>>
       ELSE BatchRaises
    /\ UNCHANGED <<client_vars, resume, use_batch, requests, poll_vars, analyses, md,
                   store_vars, runs, sample_chunks, paces, issued, existing, stored_at_start,
                   source, raised>>

TerminalOrNot(st) == st # "error"

\* `if status == "ended": break`
Terminal(st) == st = "ended"

\* wait_for_batch: one batches.retrieve; not ended: sleep POLL_INTERVAL and
\* poll again; ended: go on to _collect_results; or retrieve raises
PollBatch(st) ==
    /\ pc = "batch_poll"
    /\ IF st = "error"
       THEN /\ BatchRaises
            /\ UNCHANGED <<poll_vars>>
       ELSE /\ processing_status' = st
            /\ IF Terminal(st)
               THEN /\ pc' = "batch_collect"
                    /\ pending' = Range(requests)
                    /\ UNCHANGED <<polls, waited, results, seen, i, batch_error, failure>>
               ELSE /\ polls < MaxPolls
                    /\ polls' = polls + 1
                    /\ waited' = waited + POLL_INTERVAL
                    /\ UNCHANGED <<pc, pending, results, seen, i, batch_error, failure>>
    /\ UNCHANGED <<client_vars, resume, use_batch, requests, analyses, md,
                   store_vars, runs, sample_chunks, map_calls, paces, issued, existing,
                   stored_at_start, source, raised>>

\* _collect_results: batches.results yields the outcome of one more request
CollectEvent(id, type, content) ==
    /\ pc = "batch_collect"
    /\ id \in pending
    /\ type # "succeeded" => content = <<>>
    /\ results' = CollectOne(results, Outcome(id, type, content))
    /\ seen' = Append(seen, Outcome(id, type, content))
    /\ pending' = pending \ {id}
    /\ UNCHANGED <<client_vars, pc, resume, use_batch, requests, poll_vars, i, analyses,
                   md, store_vars, hist_vars>>

\* _collect_results: the results stream breaks with an exception
CollectRaises ==
    /\ pc = "batch_collect"
    /\ pending # {}
    /\ BatchRaises
    /\ UNCHANGED <<client_vars, resume, use_batch, requests, poll_vars, analyses, md,
                   store_vars, runs, sample_chunks, map_calls, paces, issued, existing,
                   stored_at_start, source, raised>>

\* _collect_results returns; submit_and_wait returns to _analyze_chunks
BatchReturns ==
    /\ pc = "batch_collect"
    /\ pending = {}
    /\ pc' = "save"
    /\ source' = "batch"
    /\ i' = 0
    /\ UNCHANGED <<client_vars, resume, use_batch, requests, results, pending, seen,
                   poll_vars, analyses, md, store_vars, runs, sample_chunks, map_calls, paces, issued,
                   existing, stored_at_start, batch_error, failure, raised>>

\* fallback_sequential, iteration i: llm.complete returns a text; it is
\* stored, the loop paces, and after the last request the results are returned
FallbackRequest(text) ==
    /\ pc = "fallback"
    /\ i < Len(requests)
    /\ issued' = Append(issued, requests[i + 1])
    /\ map_calls' = map_calls + 1
    /\ results' = Put(results, requests[i + 1], text)
    /\ paces' = IF PaceAfter(i, Len(requests)) THEN paces + 1 ELSE paces
    /\ IF i + 1 < Len(requests)
       THEN /\ i' = i + 1
            /\ UNCHANGED <<pc, source>>
       ELSE /\ i' = 0
            /\ pc' = "save"
            /\ source' = "fallback"
    /\ UNCHANGED <<client_vars, resume, use_batch, requests, pending, seen, poll_vars,
                   analyses, md, store_vars, runs, sample_chunks, existing, stored_at_start,
                   batch_error, failure, raised>>

\* fallback_sequential, iteration i: llm.complete raises; nothing catches
\* the exception up to run()
FallbackRaises(err) ==
    /\ pc = "fallback"
    /\ i < Len(requests)
    /\ issued' = Append(issued, requests[i + 1])
    /\ map_calls' = map_calls + 1
    /\ pc' = "failed"
    /\ failure' = "fallback"
    /\ raised' = err
    /\ UNCHANGED <<client_vars, resume, use_batch, requests, results, pending, seen,
                   poll_vars, i, analyses, md, store_vars, runs, sample_chunks, paces, existing,
                   stored_at_start, batch_error, source>>

\* _analyze_chunks: one iteration of the save loop; after the last one the
\* analyses are returned to run()
SaveChunk ==
    /\ pc = "save"
    /\ i < Len(requests)
    /\ LET analysis == ChunkAnalysis(i, Get(results, CustomId(i), EmptyText))
       IN /\ chunk_analyses' = save_chunk_analysis(chunk_analyses, analysis)
          /\ analyses' = Append(analyses, analysis)
    /\ IF i + 1 < Len(requests)
       THEN /\ i' = i + 1
            /\ UNCHANGED <<pc, requests, results, pending, seen, poll_vars>>
       ELSE /\ pc' = "synth_md"
            /\ DropLocals
    /\ UNCHANGED <<client_vars, resume, use_batch, md, style_guide, hist_vars>>

\* _synthesize: the first complete call returns the markdown
SynthesizeMd(text) ==
    /\ pc = "synth_md"
    /\ md' = text
    /\ pc' = "synth_json"
    /\ UNCHANGED <<client_vars, resume, use_batch, requests, results, pending, seen,
                   poll_vars, i, analyses, store_vars, hist_vars>>

\* _synthesize: the second complete call returns; run() saves the guide in
\* the store (committed at once)
SynthesizeJson(text) ==
    /\ pc = "synth_json"
    /\ style_guide' = save_style_guide(style_guide, StyleGuide(md, Len(analyses)))
    /\ pc' = "save_files"
    /\ UNCHANGED <<client_vars, resume, use_batch, requests, results, pending, seen,
                   poll_vars, i, analyses, md, chunk_analyses, hist_vars>>

\* run(): _save_to_files writes the markdown of the guide to the guide file,
\* and run() returns
SaveToFiles ==
    /\ pc = "save_files"
    /\ md_file' = [exists |-> TRUE, text |-> md]
    /\ pc' = "done"
    /\ UNCHANGED <<client_vars, resume, use_batch, requests, results, pending, seen,
                   poll_vars, i, analyses, md, store_vars, hist_vars>>

\* _synthesize: a complete call raises; nothing catches the exception
SynthesisRaises(err) ==
    /\ pc \in {"synth_md", "synth_json"}
    /\ pc' = "failed"
    /\ failure' = "synthesis"
    /\ raised' = err
    /\ UNCHANGED <<client_vars, resume, use_batch, requests, results, pending, seen,
                   poll_vars, i, analyses, md, store_vars, runs, sample_chunks, map_calls, paces,
                   issued, existing, stored_at_start, batch_error, source>>

\* the process is killed: memory is lost, the store keeps what was committed
Crash ==
    /\ Running
    /\ pc' = "crashed"
    /\ DropLocals
    /\ analyses' = <<>>
    /\ md' = EmptyText
    /\ UNCHANGED <<client_vars, resume, use_batch, store_vars, hist_vars>>

----------------------------------------------------------------------------
(* StyleExtractor._parse_json and the end of _synthesize *)

\* A response text of the structured-record call is a sequence of lexical
\* tokens.  Fence is a line that starts with three backquotes (a fence mark
\* always has a line of its own); "a:1" is an object member with its separator, "1" a
\* number with its separator, "x" any text that is not JSON.  White space
\* is not a token: strip() and the JSON parser skip it.
Fence == "fence"
JsonTokens == {Fence, "{", "}", "[", "]", "a:1", "1", "x"}

RECURSIVE SeqsUpTo(_, _)
SeqsUpTo(S, n) ==
    IF n = 0 THEN {<<>>}
    ELSE LET shorter == SeqsUpTo(S, n - 1)
         IN  shorter \cup {Append(s, x) : s \in {t \in shorter : Len(t) = n - 1}, x \in S}

JsonTexts == SeqsUpTo(JsonTokens, MaxTextLen)

\* Python values that json.loads returns, and the record _parse_json builds:
\* kind is the Python type; a dict has keys[k] mapped to items[k], a list has
\* its elements in items, a str has its characters in text
JValue(kind, keys, items, text) ==
    [kind |-> kind, keys |-> keys, items |-> items, text |-> text]
JNone == JValue("NoneType", <<>>, <<>>, <<>>)
JInt == JValue("int", <<>>, <<>>, <<>>)
JTrue == JValue("bool", <<>>, <<>>, <<>>)
JStr(text) == JValue("str", <<>>, <<>>, text)
JList(items) == JValue("list", <<>>, items, <<>>)
JDict(keys, items) == JValue("dict", keys, items, <<>>)

\* d[key] = value on a dict: a repeated key keeps its place and takes the
\* last value
RECURSIVE IndexOf(_, _, _)
IndexOf(s, x, from) ==
    IF from > Len(s) THEN 0
    ELSE IF s[from] = x THEN from ELSE IndexOf(s, x, from + 1)

SetItem(d, key, value) ==
    LET k == IndexOf(d.keys, key, 1)
    IN  IF k = 0 THEN JDict(Append(d.keys, key), Append(d.items, value))
        ELSE JDict(d.keys, [d.items EXCEPT ![k] = value])

\* the outcome of scanning one JSON value: ok, the value, the tokens left
Scanned(value, rest) == [ok |-> TRUE, value |-> value, rest |-> rest]
NotJson == [ok |-> FALSE, value |-> JNone, rest |-> <<>>]

RECURSIVE ScanValue(_)
RECURSIVE ScanMembers(_, _)
RECURSIVE ScanElements(_, _)

\* json.loads, the decoder: one value from the head of the tokens
ScanValue(toks) ==
    IF toks = <<>> THEN NotJson
    ELSE IF Head(toks) = "1" THEN Scanned(JInt, Tail(toks))
    ELSE IF Head(toks) = "{" THEN ScanMembers(Tail(toks), JDict(<<>>, <<>>))
    ELSE IF Head(toks) = "[" THEN ScanElements(Tail(toks), <<>>)
    ELSE NotJson

ScanMembers(toks, d) ==
    IF toks = <<>> THEN NotJson
    ELSE IF Head(toks) = "}" THEN Scanned(d, Tail(toks))
    ELSE IF Head(toks) = "a:1" THEN ScanMembers(Tail(toks), SetItem(d, "a", JInt))
    ELSE NotJson

ScanElements(toks, acc) ==
    IF toks = <<>> THEN NotJson
    ELSE IF Head(toks) = "]" THEN Scanned(JList(acc), Tail(toks))
    ELSE LET r == ScanValue(toks)
         IN  IF r.ok THEN ScanElements(r.rest, Append(acc, r.value)) ELSE NotJson

\* json.loads(text): the whole text is one JSON value, of any type; anything
\* else is a JSONDecodeError (ok = FALSE)
json_loads(text) ==
    LET r == ScanValue(text)
    IN  IF r.ok /\ r.rest = <<>> THEN r ELSE NotJson

\* the lines that do not start with a fence mark, when the text starts with one
StripFence(text) ==
    IF text # <<>> /\ Head(text) = Fence
    THEN SelectSeq(text, LAMBDA tok : tok # Fence)
    ELSE text

\* str.find and str.rfind, as 0-based positions, -1 when there is none
RECURSIVE RIndexOf(_, _, _)
RIndexOf(s, x, from) ==
    IF from < 1 THEN 0
    ELSE IF s[from] = x THEN from ELSE RIndexOf(s, x, from - 1)
find(text, tok) == IndexOf(text, tok, 1) - 1
rfind(text, tok) == RIndexOf(text, tok, Len(text)) - 1

\* text[start:end]
Slice(text, start, end) == SubSeq(text, start + 1, end)

RawRecord(text) == JDict(<<"raw", "parse_error">>, <<JStr(text), JTrue>>)

_parse_json(json) ==
    LET text == StripFence(json)
        direct == json_loads(text)
        start == find(text, "{")
        end == rfind(text, "}") + 1
    IN  IF direct.ok THEN direct.value
        ELSE IF start >= 0 /\ end > start /\ json_loads(Slice(text, start, end)).ok
             THEN json_loads(Slice(text, start, end)).value
             ELSE RawRecord(text)

\* pydantic validates StyleGuide.structured as dict[str, Any]
ValidStructured(value) == value.kind = "dict"

\* _synthesize from the return of the structured-record call: the text is
\* parsed and the StyleGuide is constructed; a ValidationError of the
\* constructor is caught nowhere
SynthesizeGuide ==
    /\ synth = "called"
    /\ structured' = _parse_json(json_text)
    /\ synth' = IF ValidStructured(_parse_json(json_text)) THEN "returned" ELSE "raised"
    /\ UNCHANGED json_text

PinParse ==
    /\ json_text = <<>>
    /\ structured = JNone
    /\ synth = "off"

----------------------------------------------------------------------------
(* sampler.chunk_articles *)

\* an article, as the chunker sees it: which one it is, and what
\* token_counter returns for its rendered text
Doc(id, tokens) == [id |-> id, tokens |-> tokens]
token_counter(article) == article.tokens

\* the input lists: the k-th article of a list has id k
DocLists ==
    UNION {{[k \in 1..n |-> Doc(k, t[k])] : t \in [1..n -> 1..MaxDocTokens]} :
           n \in 0..MaxDocs}

\* the state of the loop: the closed chunks, the running chunk and its sum
Packing(chunks_, current_chunk, current_tokens) ==
    [chunks |-> chunks_, current_chunk |-> current_chunk,
     current_tokens |-> current_tokens]

MustCloseOnBudgetOnly(st, article_tokens, budget, cap) ==
    /\ st.current_chunk # <<>>
    /\ st.current_tokens + article_tokens > budget

\* the condition of the if in the loop
MustClose(st, article_tokens, budget, cap) ==
    /\ st.current_chunk # <<>>
    /\ \/ st.current_tokens + article_tokens > budget
       \/ Len(st.current_chunk) >= cap

\* one iteration of the loop
Pack(st, article, budget, cap) ==
    LET article_tokens == token_counter(article)
        open == IF MustClose(st, article_tokens, budget, cap)
                THEN Packing(Append(st.chunks, st.current_chunk), <<>>, 0)
                ELSE st
    IN  Packing(open.chunks, Append(open.current_chunk, article),
                open.current_tokens + article_tokens)

RECURSIVE PackAll(_, _, _, _)
PackAll(st, list, budget, cap) ==
    IF list = <<>> THEN st
    ELSE PackAll(Pack(st, Head(list), budget, cap), Tail(list), budget, cap)

FlushNothing(st) == st.chunks

\* the running chunk is appended after the loop unless it is empty
Flush(st) ==
    IF st.current_chunk # <<>> THEN Append(st.chunks, st.current_chunk)
    ELSE st.chunks

chunk_articles(list, budget, cap) ==
    Flush(PackAll(Packing(<<>>, <<>>, 0), list, budget, cap))

\* a call of chunk_articles; it has no raise
ChunkArticles ==
    /\ chunker = "called"
    /\ chunks' = chunk_articles(docs, max_tokens, max_per_chunk)
    /\ chunker' = "returned"
    /\ UNCHANGED <<docs, max_tokens, max_per_chunk>>

PinChunker ==
    /\ docs = <<>>
    /\ max_tokens = 1
    /\ max_per_chunk = 1
    /\ chunks = <<>>
    /\ chunker = "off"

----------------------------------------------------------------------------
(* sampler.stratified_sample *)

\* the floor of the target count, and the largest number of time slices
MIN_TARGET == 10
MAX_SLICES == 4

\* A corpus is given by the number of articles of each primary category
\* ("_uncategorized" is one of them).  The article <<cat, k>> is the k-th of
\* its category in the order of published_at, which is the order the group
\* has after its sort.  The sample fraction is in hundredths.
Categories == 1..MaxCategories
Fractions == {18, 90, 100}

RECURSIVE SumOver(_, _)
SumOver(f, S) ==
    IF S = {} THEN 0
    ELSE LET x == CHOOSE y \in S : TRUE IN f[x] + SumOver(f, S \ {x})

Corpora == {c \in [Categories -> 0..MaxCorpus] : SumOver(c, Categories) <= MaxCorpus}

\* len(articles), and the articles themselves
CorpusSize(c) == SumOver(c, Categories)
Articles(c) == UNION {{<<cat, k>> : k \in 1..c[cat]} : cat \in Categories}

\* max(10, int(len(articles) * settings.sample_fraction))
target_n(n, fraction) == Max(MIN_TARGET, (n * fraction) \div 100)

\* round(p / q) of Python: to the nearest integer, a half to the even one
round(p, q) ==
    LET floor == p \div q
        twice == 2 * (p % q)
    IN  IF twice < q THEN floor
        ELSE IF twice > q THEN floor + 1
        ELSE IF floor % 2 = 0 THEN floor ELSE floor + 1

cat_n_swapped(target, len_cat, n) == Min(Max(1, round(n * len_cat, target)), len_cat)

\* the quota of a category of size len_cat in a corpus of size n
cat_n(target, len_cat, n) == Min(Max(1, round(target * len_cat, n)), len_cat)

\* rng.sample(population, k): any k of the population (the generator is
\* seeded, its draws are not modelled: every draw is possible)
rng_sample(population, k) == {s \in SUBSET population : Cardinality(s) = k}

FromSlicesEvenly(cat, len_cat, n_slices, s, remainder) ==
    {UNION {{<<cat, t * (len_cat \div n_slices) + j>> : j \in 1..(remainder \div n_slices)} :
            t \in 0..(n_slices - 1)}}

\* the loop over the time slices of one category, from slice s on
RECURSIVE FromSlices(_, _, _, _, _)
FromSlices(cat, len_cat, n_slices, s, remainder) ==
    IF s = n_slices THEN {{}}
    ELSE LET slice_size == len_cat \div n_slices
             start == s * slice_size
             end == IF s < n_slices - 1 THEN start + slice_size ELSE len_cat
             time_slice == {<<cat, k>> : k \in (start + 1)..end}
             n_from_slice == Min(remainder \div (n_slices - s), Cardinality(time_slice))
         IN  UNION {{picked \cup rest :
                       rest \in FromSlices(cat, len_cat, n_slices, s + 1,
                                           remainder - n_from_slice)} :
                    picked \in rng_sample(time_slice, n_from_slice)}

\* what one category can add to selected
FromCategory(cat, len_cat, target, n) ==
    LET quota == cat_n(target, len_cat, n)
    IN  IF quota >= len_cat THEN {{<<cat, k>> : k \in 1..len_cat}}
        ELSE FromSlices(cat, len_cat, Min(quota, MAX_SLICES), 0, quota)

\* the loop over by_category: the categories that have an article
RECURSIVE Selected(_, _, _)
Selected(c, cats, target) ==
    IF cats = {} THEN {{}}
    ELSE LET cat == CHOOSE x \in cats : TRUE
         IN  UNION {{picked \cup rest : rest \in Selected(c, cats \ {cat}, target)} :
                    picked \in FromCategory(cat, c[cat], target, CorpusSize(c))}

NoDownSample(selected, target) == {selected}

\* if len(selected) > target_n: selected = rng.sample(selected, target_n)
DownSample(selected, target) ==
    IF Cardinality(selected) > target THEN rng_sample(selected, target)
    ELSE {selected}

\* a call of stratified_sample; it has no raise.  The list returned is kept
\* as the set of its articles: its order is the generator's (rng.sample,
\* rng.shuffle) and no article is in it twice.
StratifiedSample ==
    /\ sampler = "called"
    /\ LET target == target_n(CorpusSize(corpus), sample_fraction)
           by_category == {cat \in Categories : corpus[cat] > 0}
       IN  \E selected \in Selected(corpus, by_category, target) :
           \E final \in DownSample(selected, target) :
               /\ allocated' = Cardinality(selected)
               /\ sample' = final
    /\ sampler' = "returned"
    /\ UNCHANGED <<corpus, sample_fraction>>

PinSampler ==
    /\ corpus = [cat \in Categories |-> 0]
    /\ sample_fraction = 18
    /\ sample = {}
    /\ allocated = 0
    /\ sampler = "off"

----------------------------------------------------------------------------
(* CorpusStore: articles and examples *)

\* An article is its id.  Ids are given in the order of insertion
\* (AUTOINCREMENT, never reused); the articles of the model are imported in
\* the order of their published_at, so that ORDER BY published_at and
\* ORDER BY id list them alike.  No statement updates an article.
RECURSIVE Ascending(_)
Ascending(S) ==
    IF S = {} THEN <<>>
    ELSE LET least == CHOOSE x \in S : \A y \in S : x <= y
         IN  <<least>> \o Ascending(S \ {least})

\* SELECT * FROM articles ORDER BY published_at
get_all_articles(rows) == Ascending(rows)

\* SELECT * FROM articles WHERE id IN (ids) ORDER BY id; [] for no ids
get_articles_by_ids(rows, ids) ==
    IF ids = <<>> THEN <<>> ELSE Ascending(rows \cap Range(ids))

FewShotExample(article_id, cluster_id) ==
    [article_id |-> article_id, cluster_id |-> cluster_id]

save_examples_merge(rows, new) == rows \o new

\* DELETE FROM examples, then one INSERT for each new one, in one transaction
save_examples(rows, new) == new

\* SELECT article_id FROM examples ORDER BY cluster_id
RECURSIVE InsertByClusterId(_, _)
InsertByClusterId(sorted, row) ==
    IF sorted = <<>> THEN <<row>>
    ELSE IF Head(sorted).cluster_id <= row.cluster_id
         THEN <<Head(sorted)>> \o InsertByClusterId(Tail(sorted), row)
         ELSE <<row>> \o sorted

RECURSIVE OrderByClusterId(_)
OrderByClusterId(rows) ==
    IF rows = <<>> THEN <<>>
    ELSE InsertByClusterId(OrderByClusterId(SubSeq(rows, 1, Len(rows) - 1)),
                           rows[Len(rows)])

get_example_article_ids(rows) ==
    [k \in 1..Len(rows) |-> OrderByClusterId(rows)[k].article_id]

----------------------------------------------------------------------------
(* ExampleSelector *)

\* The model of a selector (in memory: _vectorizer, _tfidf_matrix,
\* _article_ids; on disk: the file at tfidf_model_path).  A fit is a function
\* of the texts of the articles it is made on, in their order, so a fitted
\* model is given by its _article_ids; row k of the matrix is the vector of
\* article_ids[k].
NoModel == [fitted |-> FALSE, article_ids |-> <<>>]
FittedModel(article_ids) == [fitted |-> TRUE, article_ids |-> article_ids]

\* the cosine similarities of the model, as levels
Similarities == {0, 1}

\* what a call leaves in the variables that hold its results
NoFind == [requested |-> 0, compared |-> <<>>, similarities |-> <<>>, found |-> <<>>]
NoBuild == [returned |-> <<>>, deleted |-> 0, labels |-> <<>>, distances |-> <<>>]

\* KMeans.fit_predict: a label in 0..k-1 for each row of the matrix.  The
\* partition depends on the texts; any labelling is possible (a cluster can
\* stay empty).
Labellings(n, k) == [1..n -> 0..(k - 1)]

\* a clustering of n rows in k clusters: the label of each row and its
\* cosine similarity to the centroid of its cluster (`distances`)
Clusterings(n, k) ==
    {[labels |-> labels, distances |-> distances] :
        labels \in Labellings(n, k), distances \in [1..n -> Similarities]}

argmax_first(distances, indices) == CHOOSE j \in indices : \A m \in indices : j <= m

\* indices[np.argmax(distances)]: the first of the rows of the cluster whose
\* similarity is the highest
argmax(distances, indices) ==
    CHOOSE j \in indices :
        \A m \in indices :
            distances[j] > distances[m] \/ (distances[j] = distances[m] /\ j <= m)

\* the loop over the clusters, from cluster_id on: a cluster without members
\* is skipped
RECURSIVE Representatives(_, _, _, _, _)
Representatives(article_ids, labels, distances, cluster_id, k) ==
    IF cluster_id = k THEN <<>>
    ELSE LET indices == {j \in DOMAIN labels : labels[j] = cluster_id}
             rest == Representatives(article_ids, labels, distances, cluster_id + 1, k)
         IN  IF indices = {} THEN rest
             ELSE <<FewShotExample(article_ids[argmax(distances, indices)], cluster_id)>>
                  \o rest

\* n_clusters = min(self.settings.n_clusters, len(articles))
n_clusters(n) == Min(MaxClusters, n)

\* the lists of examples a run of build_clusters can select on these articles
Selections(article_ids) ==
    {Representatives(article_ids, c.labels, c.distances, 0, n_clusters(Len(article_ids))) :
        c \in Clusterings(Len(article_ids), n_clusters(Len(article_ids)))}

\* insert_articles_batch of one new article
ImportArticle ==
    /\ Cardinality(articles) < MaxArticles
    /\ articles' = articles \cup {Cardinality(articles) + 1}
    /\ op' = "import"
    /\ retrieval' = NoFind
    /\ selection' = NoBuild
    /\ UNCHANGED <<examples, model_file, loaded>>

\* ExampleSelector(settings, store): another instance takes over
NewSelector ==
    /\ loaded' = NoModel
    /\ op' = "new"
    /\ retrieval' = NoFind
    /\ selection' = NoBuild
    /\ UNCHANGED <<articles, examples, model_file>>

\* build_clusters returns
BuildClusters ==
    /\ articles # {}
    /\ LET article_ids == get_all_articles(articles)
           k == n_clusters(Len(article_ids))
       IN  \E c \in Clusterings(Len(article_ids), k) :
               LET selected == Representatives(article_ids, c.labels, c.distances, 0, k)
               IN  /\ loaded' = FittedModel(article_ids)
                   /\ examples' = save_examples(examples, selected)
                   /\ model_file' = FittedModel(article_ids)
                   /\ selection' = [returned |-> selected, deleted |-> Len(examples),
                                    labels |-> c.labels, distances |-> c.distances]
    /\ op' = "built"
    /\ retrieval' = NoFind
    /\ UNCHANGED articles

\* build_clusters raises: at "empty" there is no article; at "cluster" the
\* run ends between the fit and save_examples; at "save_model" it ends after
\* save_examples, before the file is written
BuildClustersRaises(at) ==
    /\ at = "empty" <=> articles = {}
    /\ LET article_ids == get_all_articles(articles)
       IN  \/ /\ at = "empty"
              /\ UNCHANGED <<loaded, examples>>
              /\ selection' = NoBuild
           \/ /\ at = "cluster"
              /\ loaded' = FittedModel(article_ids)
              /\ UNCHANGED examples
              /\ selection' = NoBuild
           \/ /\ at = "save_model"
              /\ loaded' = FittedModel(article_ids)
              /\ \E selected \in Selections(article_ids) :
                     examples' = save_examples(examples, selected)
              /\ selection' = [NoBuild EXCEPT !.deleted = Len(examples)]
    /\ op' = "build_raised"
    /\ retrieval' = NoFind
    /\ UNCHANGED <<articles, model_file>>

_ensure_model_reload(in_memory, on_disk) == on_disk

\* the model in memory after _ensure_model, when it does not raise
_ensure_model(in_memory, on_disk) ==
    IF in_memory.fitted THEN in_memory ELSE on_disk

\* np.argsort(similarities): the indices in an order of ascending
\* similarity; the order of equal similarities is the sort's
argsort(sims) ==
    {order \in [1..Len(sims) -> 1..Len(sims)] :
        /\ \A a, b \in 1..Len(sims) : a # b => order[a] # order[b]
        /\ \A a, b \in 1..Len(sims) : a < b => sims[order[a]] <= sims[order[b]]}

\* s[-k:] and s[::-1]
LastN(s, k) == IF k = 0 THEN s ELSE SubSeq(s, Len(s) - k + 1, Len(s))
Reversed(s) == [j \in 1..Len(s) |-> s[Len(s) + 1 - j]]

\* find_similar(text, n) on a selector with this model in memory: the ways
\* it can end, for every text (a text gives each compared vector a
\* similarity)
find_similar(in_memory, on_disk, example_rows, article_rows, n) ==
    LET model == _ensure_model(in_memory, on_disk)
        example_ids == Range(get_example_article_ids(example_rows))
        rows == [j \in 1..Len(model.article_ids) |-> j]
        example_indices == SelectSeq(rows, LAMBDA j : model.article_ids[j] \in example_ids)
        compared == [j \in 1..Len(example_indices) |-> model.article_ids[example_indices[j]]]
        top_n == Min(n, Len(example_indices))
        Ended(err, res) == [error |-> err, loaded |-> model, retrieval |-> res]
    IN  IF ~in_memory.fitted /\ ~on_disk.fitted
        THEN {[error |-> "model", loaded |-> in_memory, retrieval |-> NoFind]}
        ELSE IF example_ids = {} THEN {Ended("examples", NoFind)}
        ELSE IF example_indices = <<>> THEN {Ended("not_in_model", NoFind)}
        ELSE UNION {{Ended("none",
                           [requested |-> n,
                            compared |-> compared,
                            similarities |-> sims,
                            found |-> get_articles_by_ids(article_rows,
                                [j \in 1..Len(LastN(order, top_n)) |->
                                    compared[Reversed(LastN(order, top_n))[j]]])]) :
                      order \in argsort(sims)} :
                    sims \in [1..Len(example_indices) -> Similarities]}

\* a call of find_similar on the selector
FindSimilar(n) ==
    /\ \E end \in find_similar(loaded, model_file, examples, articles, n) :
           /\ loaded' = end.loaded
           /\ retrieval' = end.retrieval
           /\ op' = IF end.error = "none" THEN "found" ELSE "find_raised"
    /\ selection' = NoBuild
    /\ UNCHANGED <<articles, examples, model_file>>

PinExamples ==
    /\ articles = {}
    /\ examples = <<>>
    /\ model_file = NoModel
    /\ loaded = NoModel
    /\ retrieval = NoFind
    /\ selection = NoBuild
    /\ op = "none"

----------------------------------------------------------------------------
(* RewriteEngine *)

\* the file at settings.style_guide_md_path
NoFile == [exists |-> FALSE, text |-> EmptyText]
File(text) == [exists |-> TRUE, text |-> text]

\* SELECT * FROM style_guide ORDER BY id DESC LIMIT 1 (a row, when there is one)
get_latest_style_guide(rows) == rows[Len(rows)]

_load_style_guide_default(file, rows) == [found |-> TRUE, markdown |-> EmptyText]

\* the file if it exists, else the latest stored guide, else a RuntimeError
\* (found = FALSE)
_load_style_guide(file, rows) ==
    IF file.exists THEN [found |-> TRUE, markdown |-> file.text]
    ELSE IF rows # <<>>
         THEN [found |-> TRUE, markdown |-> get_latest_style_guide(rows).markdown]
         ELSE [found |-> FALSE, markdown |-> EmptyText]

\* the ways a rewrite ends once the prompts are built: complete_cached
\* returns a text, or raises
RewriteOutcomes == {"returned"} \cup CompleteErrors

\* rewrite(text, n_examples = n) on the engine; it ends with the text
\* returned, or with the error raised by _load_style_guide
\* ("style_guide"), by find_similar ("model", "examples", "not_in_model") or
\* by complete_cached ("api", "runtime")
Rewrite(n) ==
    /\ rewrite # "off"
    /\ llm_calls < MaxRewrites
    /\ style_guide_md' = _load_style_guide(md_file, style_guide).markdown
    /\ IF ~_load_style_guide(md_file, style_guide).found
       THEN /\ rewrite' = "style_guide"
            /\ UNCHANGED <<llm_calls, loaded, retrieval, op>>
       ELSE \E end \in find_similar(loaded, model_file, examples, articles, n) :
               /\ loaded' = end.loaded
               /\ retrieval' = end.retrieval
               /\ op' = IF end.error = "none" THEN "found" ELSE "find_raised"
               /\ IF end.error # "none"
                  THEN /\ rewrite' = end.error
                       /\ UNCHANGED llm_calls
                  ELSE /\ llm_calls' = llm_calls + 1
                       /\ rewrite' \in RewriteOutcomes
    /\ UNCHANGED <<md_file, style_guide, articles, examples, model_file, selection>>

PinRewrite ==
    /\ md_file = NoFile
    /\ llm_calls = 0
    /\ style_guide_md = EmptyText
    /\ rewrite = "off"

\* the components that take no part in a specification stay as constructed
PinAux ==
    /\ PinParse
    /\ PinChunker
    /\ PinSampler
    /\ PinExamples
    /\ PinRewrite

----------------------------------------------------------------------------
(* Specifications *)

InitClient ==
    /\ attempt = 0
    /\ responses = <<>>
    /\ delays = <<>>
    /\ usage = 0
    /\ result = EmptyText
    /\ error = "none"

\* the locals of _analyze_chunks before it is entered
DropLocalsDone ==
    /\ requests = <<>>
    /\ results = EmptyMap
    /\ pending = {}
    /\ seen = <<>>
    /\ polls = 0
    /\ processing_status = "none"
    /\ waited = 0
    /\ i = 0

InitHistory ==
    /\ runs = 0
    /\ sample_chunks = 0
    /\ map_calls = 0
    /\ paces = 0
    /\ issued = <<>>
    /\ existing = <<>>
    /\ stored_at_start = <<>>
    /\ batch_error = FALSE
    /\ source = "none"
    /\ failure = "none"
    /\ raised = "none"

InitRun ==
    /\ pc = "idle"
    /\ resume = FALSE
    /\ use_batch = FALSE
    /\ DropLocalsDone
    /\ analyses = <<>>
    /\ md = EmptyText
    /\ chunk_analyses = <<>>
    /\ style_guide = <<>>
    /\ InitHistory

\* the analysis runs over one store
Init ==
    /\ cstate = "idle"
    /\ InitClient
    /\ InitRun
    /\ PinAux

\* the corpus and the chunk settings stay as they are between the runs of
\* one behaviour: every run's sample splits into the same number of chunks
Next ==
    \/ \E r \in BOOLEAN, b \in BOOLEAN, n \in (IF runs = 0 THEN 1..MaxChunks ELSE {sample_chunks}) :
          StartRun(r, b, n) /\ UNCHANGED aux_vars
    \/ \E ok \in BOOLEAN : SubmitBatch(ok) /\ UNCHANGED aux_vars
    \/ \E st \in {"in_progress", "ended", "error"} : PollBatch(st) /\ UNCHANGED aux_vars
    \/ \E id \in pending, type \in OutcomeTypes, content \in Messages \cup {<<>>} :
          CollectEvent(id, type, content) /\ UNCHANGED aux_vars
    \/ CollectRaises /\ UNCHANGED aux_vars
    \/ BatchReturns /\ UNCHANGED aux_vars
    \/ \E text \in CompleteTexts : FallbackRequest(text) /\ UNCHANGED aux_vars
    \/ \E err \in CompleteErrors : FallbackRaises(err) /\ UNCHANGED aux_vars
    \/ SaveChunk /\ UNCHANGED aux_vars
    \/ \E text \in CompleteTexts : SynthesizeMd(text) /\ UNCHANGED aux_vars
    \/ \E text \in CompleteTexts : SynthesizeJson(text) /\ UNCHANGED aux_vars
    \/ SaveToFiles /\ UNCHANGED <<pure_vars, examples_vars, llm_calls, style_guide_md, rewrite>>
    \/ \E err \in CompleteErrors : SynthesisRaises(err) /\ UNCHANGED aux_vars
    \/ Crash /\ UNCHANGED aux_vars

Spec == Init /\ [][Next]_vars

\* one complete call, answered by any sequence of successes, rate limits
\* (with or without retry-after) and status errors
InitComplete ==
    /\ cstate = "calling"
    /\ InitClient
    /\ InitRun
    /\ PinAux

NextComplete ==
    \/ \E content \in Messages :
          CreateOk(content) /\ UNCHANGED <<run_vars, store_vars, hist_vars, aux_vars>>
    \/ \E ra \in RetryAfter :
          CreateRateLimit(ra) /\ UNCHANGED <<run_vars, store_vars, hist_vars, aux_vars>>
    \/ \E status \in ErrorStatuses :
          CreateStatusError(status) /\ UNCHANGED <<run_vars, store_vars, hist_vars, aux_vars>>
    \/ CreateConnectionError /\ UNCHANGED <<run_vars, store_vars, hist_vars, aux_vars>>
    \/ Exhausted /\ UNCHANGED <<run_vars, store_vars, hist_vars, aux_vars>>

SpecComplete == InitComplete /\ [][NextComplete]_vars

\* one submit_and_wait call of a fresh run on the batch path, up to its
\* return or its exception.  The job reaches the terminal status at some
\* poll (weak fairness of the poll that observes it); the results stream is
\* finite and _collect_results runs on.
NextWait ==
    \/ \E n \in 1..MaxChunks : StartRun(FALSE, TRUE, n) /\ UNCHANGED aux_vars
    \/ \E ok \in BOOLEAN : SubmitBatch(ok) /\ UNCHANGED aux_vars
    \/ \E st \in {"in_progress", "ended", "error"} : PollBatch(st) /\ UNCHANGED aux_vars
    \/ \E id \in pending, type \in OutcomeTypes, content \in Messages \cup {<<>>} :
          CollectEvent(id, type, content) /\ UNCHANGED aux_vars
    \/ CollectRaises /\ UNCHANGED aux_vars
    \/ BatchReturns /\ UNCHANGED aux_vars

SpecWait ==
    /\ Init
    /\ [][NextWait]_vars
    /\ WF_vars(PollBatch("ended") /\ UNCHANGED aux_vars)
    /\ WF_vars(\E id \in pending, type \in OutcomeTypes, content \in Messages \cup {<<>>} :
                  CollectEvent(id, type, content) /\ UNCHANGED aux_vars)
    /\ WF_vars(BatchReturns /\ UNCHANGED aux_vars)

\* the end of one _synthesize call, for every text the structured-record
\* call can return
InitParse ==
    /\ cstate = "idle"
    /\ InitClient
    /\ InitRun
    /\ json_text \in JsonTexts
    /\ structured = JNone
    /\ synth = "called"
    /\ PinChunker
    /\ PinSampler
    /\ PinExamples
    /\ PinRewrite

NextParse ==
    \/ SynthesizeGuide /\ UNCHANGED <<main_vars, chunker_vars, sampler_vars, examples_vars, rewrite_vars>>

SpecParse == InitParse /\ [][NextParse]_vars

\* one call of chunk_articles, for every list, token budget and item cap
InitChunker ==
    /\ cstate = "idle"
    /\ InitClient
    /\ InitRun
    /\ PinParse
    /\ docs \in DocLists
    /\ max_tokens \in 1..MaxBudget
    /\ max_per_chunk \in 1..MaxCap
    /\ chunks = <<>>
    /\ chunker = "called"
    /\ PinSampler
    /\ PinExamples
    /\ PinRewrite

NextChunker ==
    \/ ChunkArticles /\ UNCHANGED <<main_vars, parse_vars, sampler_vars, examples_vars, rewrite_vars>>

SpecChunker == InitChunker /\ [][NextChunker]_vars

\* one call of stratified_sample, for every corpus and sample fraction
InitSampler ==
    /\ cstate = "idle"
    /\ InitClient
    /\ InitRun
    /\ PinParse
    /\ PinChunker
    /\ corpus \in Corpora
    /\ sample_fraction \in Fractions
    /\ sample = {}
    /\ allocated = 0
    /\ sampler = "called"
    /\ PinExamples
    /\ PinRewrite

NextSampler ==
    \/ StratifiedSample /\ UNCHANGED <<main_vars, parse_vars, chunker_vars, examples_vars, rewrite_vars>>

SpecSampler == InitSampler /\ [][NextSampler]_vars

\* imports, example-selection runs and retrievals over one store, by one
\* selector after another
InitExamples ==
    /\ cstate = "idle"
    /\ InitClient
    /\ InitRun
    /\ PinParse
    /\ PinChunker
    /\ PinSampler
    /\ PinExamples
    /\ PinRewrite

NextExamples ==
    \/ ImportArticle /\ UNCHANGED <<main_vars, pure_vars, rewrite_vars>>
    \/ NewSelector /\ UNCHANGED <<main_vars, pure_vars, rewrite_vars>>
    \/ BuildClusters /\ UNCHANGED <<main_vars, pure_vars, rewrite_vars>>
    \/ \E at \in {"empty", "cluster", "save_model"} :
          BuildClustersRaises(at)
          /\ UNCHANGED <<main_vars, pure_vars, rewrite_vars>>
    \/ \E n \in 0..MaxN :
          FindSimilar(n) /\ UNCHANGED <<main_vars, pure_vars, rewrite_vars>>

SpecExamples == InitExamples /\ [][NextExamples]_vars

\* rewrites by one engine, over every combination of the artefacts an
\* analysis, an interrupted analysis or the user can have left: the guide
\* file, the stored guide, the model file, the examples
InitRewrite ==
    /\ cstate = "idle"
    /\ InitClient
    /\ pc = "idle"
    /\ resume = FALSE
    /\ use_batch = FALSE
    /\ DropLocalsDone
    /\ analyses = <<>>
    /\ md = EmptyText
    /\ chunk_analyses = <<>>
    /\ style_guide \in {<<>>, <<StyleGuide(<<"a">>, 1)>>}
    /\ InitHistory
    /\ PinParse
    /\ PinChunker
    /\ PinSampler
    /\ \E n \in 0..MaxArticles :
          /\ articles = 1..n
          /\ examples \in {<<>>} \cup
                UNION {Selections(get_all_articles(1..k)) : k \in 1..n}
          /\ model_file \in {NoModel} \cup
                {FittedModel(get_all_articles(1..k)) : k \in 1..n}
    /\ loaded = NoModel
    /\ retrieval = NoFind
    /\ selection = NoBuild
    /\ op = "new"
    /\ md_file \in {NoFile, File(<<"b">>)}
    /\ llm_calls = 0
    /\ style_guide_md = EmptyText
    /\ rewrite = "ready"

NextRewrite ==
    \/ \E n \in 0..MaxN :
          Rewrite(n)
          /\ UNCHANGED <<client_vars, run_vars, chunk_analyses, hist_vars, pure_vars>>

SpecRewrite == InitRewrite /\ [][NextRewrite]_vars

\* analysis runs and rewrites after one complete analysis: the guide is
\* stored and written to the guide file, the examples and the model exist.
\* The runs take the sequential path over one chunk; build_clusters, which
\* follows run() in the analyze command, touches neither guide nor file.
InitGuide ==
    /\ cstate = "idle"
    /\ InitClient
    /\ pc = "done"
    /\ resume = FALSE
    /\ use_batch = FALSE
    /\ DropLocalsDone
    /\ analyses = <<>>
    /\ md = EmptyText
    /\ InitHistory
    /\ \E text \in CompleteTexts :
          /\ chunk_analyses = <<ChunkAnalysis(0, text)>>
          /\ style_guide = <<StyleGuide(text, 1)>>
          /\ md_file = File(text)
    /\ PinParse
    /\ PinChunker
    /\ PinSampler
    /\ articles = 1..1
    /\ examples = <<FewShotExample(1, 0)>>
    /\ model_file = FittedModel(get_all_articles(1..1))
    /\ loaded = NoModel
    /\ retrieval = NoFind
    /\ selection = NoBuild
    /\ op = "new"
    /\ llm_calls = 0
    /\ style_guide_md = EmptyText
    /\ rewrite = "ready"

NextGuide ==
    \/ \E r \in BOOLEAN : StartRun(r, FALSE, 1) /\ UNCHANGED aux_vars
    \/ \E text \in CompleteTexts : FallbackRequest(text) /\ UNCHANGED aux_vars
    \/ \E err \in CompleteErrors : FallbackRaises(err) /\ UNCHANGED aux_vars
    \/ SaveChunk /\ UNCHANGED aux_vars
    \/ \E text \in CompleteTexts : SynthesizeMd(text) /\ UNCHANGED aux_vars
    \/ \E text \in CompleteTexts : SynthesizeJson(text) /\ UNCHANGED aux_vars
    \/ SaveToFiles /\ UNCHANGED <<pure_vars, examples_vars, llm_calls, style_guide_md, rewrite>>
    \/ \E err \in CompleteErrors : SynthesisRaises(err) /\ UNCHANGED aux_vars
    \/ Crash /\ UNCHANGED aux_vars
    \/ \E n \in 1..MaxN :
          Rewrite(n)
          /\ UNCHANGED <<client_vars, run_vars, chunk_analyses, hist_vars, pure_vars>>

SpecGuide == InitGuide /\ [][NextGuide]_vars

----------------------------------------------------------------------------
(* Properties of the batch processor and of the run (under Spec) *)

Ids == Range(requests)

FallbackReturned == pc = "save" /\ source = "fallback"
BatchReturned == pc = "save" /\ source = "batch"

\* C1: fallback_sequential, whenever it ends, has returned a mapping with
\* exactly one entry for every input request id, also when the call for some
\* request raised (a non-retryable error, or its retries exhausted).
C1_FallbackOneEntryPerRequest ==
    /\ failure # "fallback"
    /\ FallbackReturned => DOMAIN results = Ids

\* C2: once the job has ended (the service yields one outcome per submitted
\* request, of any type and in any order), the mapping submit_and_wait
\* returns has exactly the submitted request ids as its keys.
C2_BatchResultHasEveryRequest ==
    BatchReturned => DOMAIN results = Ids

C2_Witness ==
    /\ BatchReturned
    /\ Len(requests) = MaxChunks
    /\ \E k \in 1..Len(seen) : seen[k].type # "succeeded"
    /\ \E k \in 1..Len(seen) : seen[k].type = "succeeded"

\* the text of a message: its text blocks, joined in order
RECURSIVE Join(_)
Join(blocks) == IF blocks = <<>> THEN <<>> ELSE Head(blocks).text \o Join(Tail(blocks))
TextOf(content) == Join(SelectSeq(content, LAMBDA block : block.type = "text"))

\* C3: while the outcomes of an ended job are collected, and when the
\* collection has returned, every succeeded outcome yielded so far maps its
\* request id to its text and every other outcome maps its request id to the
\* empty text; no outcome is lost after a failed one: what is not yet mapped
\* is still pending, and the collection returns only when all are mapped.
C3_OutcomesCollected ==
    pc \in {"batch_collect", "save"} /\ source # "fallback" =>
        /\ \A k \in 1..Len(seen) :
              /\ seen[k].custom_id \in DOMAIN results
              /\ results[seen[k].custom_id] =
                    IF seen[k].type = "succeeded" THEN TextOf(seen[k].content)
                    ELSE EmptyText
        /\ pc = "batch_collect" =>
              {seen[k].custom_id : k \in 1..Len(seen)} \cup pending = Ids
        /\ pc = "save" => Len(seen) = Len(requests)

C3_Witness ==
    /\ BatchReturned
    /\ Len(seen) >= 2
    /\ seen[1].type # "succeeded"
    /\ seen[Len(seen)].type = "succeeded"
    /\ results[seen[Len(seen)].custom_id] = <<"a", "b">>
    /\ results[seen[1].custom_id] = EmptyText

\* C4: an exception of batch submission, polling or collection never makes
\* the run raise: the run goes on in fallback_sequential, which is called
\* for all of the requests from the first one, and the analyses are built
\* from the mapping the fallback returned.
C4_BatchFailureFallsBack ==
    /\ failure # "batch"
    /\ batch_error =>
          /\ pc \in {"fallback", "save", "synth_md", "synth_json", "save_files",
                     "done", "failed", "crashed"}
          /\ pc = "fallback" => issued = SubSeq(requests, 1, i)
          /\ pc = "save" =>
                /\ source = "fallback"
                /\ issued = requests
                /\ DOMAIN results = Ids
                /\ \A k \in 1..Len(analyses) :
                      analyses[k].analysis_text = results[CustomId(k - 1)]
          /\ pc \in {"synth_md", "synth_json", "save_files", "done"} =>
                source = "fallback"
          /\ pc = "failed" => failure \in {"fallback", "synthesis"}

C4_Witness ==
    /\ batch_error
    /\ pc = "synth_md"
    /\ source = "fallback"
    /\ Len(analyses) = MaxChunks
    /\ map_calls = MaxChunks + 1

\* C9: a run with resume requested that found persisted ChunkAnalyses makes
\* no map-phase service request, leaves the persisted rows as they were,
\* and hands exactly those rows (ordered by chunk id) to the synthesis, whose
\* profile counts them.
C9_ResumeReusesPersisted ==
    resume /\ existing # <<>> =>
        /\ map_calls = 0
        /\ issued = <<>>
        /\ chunk_analyses = stored_at_start
        /\ Len(existing) = Len(stored_at_start)
        /\ Range(existing) = Range(stored_at_start)
        /\ pc \in {"synth_md", "synth_json", "save_files", "done", "failed"} =>
              analyses = existing
        /\ pc = "done" => style_guide[Len(style_guide)].n_chunks = Len(stored_at_start)

C9_Witness ==
    /\ resume
    /\ pc = "done"
    /\ Len(existing) = MaxChunks
    /\ \E k \in 1..Len(existing) : existing[k].analysis_text = EmptyText
    /\ map_calls = 0

\* C10: on the sequential path the analysis of every chunk whose result has
\* been produced is in the store before the request for the next chunk is
\* issued.
C10_PersistedBeforeNextRequest ==
    pc = "fallback" =>
        \A j \in 0..(i - 1) :
            \E k \in 1..Len(chunk_analyses) :
                /\ chunk_analyses[k].chunk_id = j
                /\ chunk_analyses[k].analysis_text = results[CustomId(j)]

----------------------------------------------------------------------------
(* Properties of LLMClient.complete (under SpecComplete) *)

Calls == Len(responses)
Transient(r) == r.status = 429 \/ r.status >= 500
AllRateLimits(rs) == \A k \in 1..Len(rs) : rs[k].status = 429
AllTransient(rs) == \A k \in 1..Len(rs) : Transient(rs[k])

\* the text of the first text block of a message, empty when it has none
FirstText(content) ==
    LET texts == SelectSeq(content, LAMBDA block : block.type = "text")
    IN IF texts = <<>> THEN EmptyText ELSE texts[1].text

\* the outcomes of a complete call, as the run takes them
CompleteOutcome ==
    /\ cstate = "returned" => result \in CompleteTexts /\ error = "none"
    /\ cstate = "raised" => error \in CompleteErrors /\ result = EmptyText

\* C5: after k < MAX_RETRIES rate-limit answers the call is still trying
\* (attempt k), and when the next answer is a success the call has returned
\* that answer's text, after k + 1 service calls, without raising.
C5_SucceedsAfterRateLimits ==
    /\ AllRateLimits(responses) /\ Calls < MAX_RETRIES =>
          cstate = "calling" /\ attempt = Calls /\ error = "none"
    /\ Calls >= 1 /\ responses[Calls].status = 200
         /\ AllRateLimits(SubSeq(responses, 1, Calls - 1)) =>
          /\ Calls <= MAX_RETRIES
          /\ cstate = "returned"
          /\ error = "none"
          /\ result = FirstText(responses[Calls].content)

C5_Witness ==
    /\ Calls = MAX_RETRIES
    /\ responses[Calls].status = 200
    /\ AllRateLimits(SubSeq(responses, 1, Calls - 1))
    /\ cstate = "returned"
    /\ result = <<"a">>

\* C6 as claimed: in a call answered by rate-limit responses (with or
\* without retry-after hint) the delays slept are non-decreasing and each is
\* at most MAX_DELAY.
C6_DelaysMonotoneAndCapped ==
    AllRateLimits(SubSeq(responses, 1, Len(delays))) =>
        \A k \in 1..Len(delays) :
            /\ delays[k] <= MAX_DELAY
            /\ k > 1 => delays[k - 1] <= delays[k]

\* C6 amended: the delays slept for answers without a retry-after hint are
\* non-decreasing among themselves and at most MAX_DELAY; the delay slept for
\* an answer with a hint is the larger of the capped backoff and the hint.
C6_UnhintedDelaysMonotoneAndCapped ==
    /\ Len(delays) <= Len(responses)
    /\ \A k \in 1..Len(delays) :
          IF responses[k].retry_after = NoHint
          THEN /\ delays[k] <= MAX_DELAY
               /\ \A j \in 1..k :
                     responses[j].retry_after = NoHint => delays[j] <= delays[k]
          ELSE /\ delays[k] >= responses[k].retry_after[1]
               /\ delays[k] > MAX_DELAY => delays[k] = responses[k].retry_after[1]

C6_Witness ==
    /\ Len(delays) = MAX_RETRIES
    /\ AllRateLimits(responses)
    /\ \E k \in 2..Len(delays) : delays[k] < delays[k - 1]
    /\ \E k \in 1..Len(delays) : delays[k] > MAX_DELAY
    /\ delays[Len(delays)] = MAX_DELAY

\* C7: an answer that is neither a rate limit nor a server error is the
\* last answer of the call: the call has raised that error, has not slept
\* for it, has not advanced to another attempt, and the usage counter is as
\* it was when the call was entered.
C7_OtherErrorPropagates ==
    \A k \in 1..Calls :
        responses[k].status # 200 /\ ~Transient(responses[k]) =>
            /\ k = Calls
            /\ cstate = "raised"
            /\ error = "api"
            /\ Len(delays) = Calls - 1
            /\ attempt = Calls - 1
            /\ usage = 0
            /\ result = EmptyText

C7_Witness ==
    /\ Calls >= 3
    /\ responses[Calls].status = 400
    /\ cstate = "raised"
    /\ Len(delays) = Calls - 1

\* C8: a call makes at most MAX_RETRIES service calls; when every answer is
\* a rate limit or a server error the call never returns, and it raises the
\* failure after exactly MAX_RETRIES calls.
C8_AtMostMaxRetriesCalls ==
    /\ Calls <= MAX_RETRIES
    /\ AllTransient(responses) =>
          /\ cstate # "returned"
          /\ result = EmptyText
          /\ cstate = "raised" => error = "runtime" /\ Calls = MAX_RETRIES
          /\ Calls = MAX_RETRIES =>
                attempt = MAX_RETRIES /\ (cstate = "calling" => ENABLED Exhausted)
    /\ error = "runtime" => Calls = MAX_RETRIES /\ AllTransient(responses)

C8_Witness ==
    /\ cstate = "raised"
    /\ error = "runtime"
    /\ Calls = MAX_RETRIES
    /\ \E k \in 1..Calls : responses[k].status >= 500
    /\ \E k \in 1..Calls : responses[k].status = 429

----------------------------------------------------------------------------
(* Properties of the JSON extraction (under SpecParse) *)

Synthesized == synth \in {"returned", "raised"}

\* what the three cases of the extraction come to for a text
EmbeddedObject(text) ==
    Slice(text, find(text, "{"), rfind(text, "}") + 1)
C11_Expected(text) ==
    IF json_loads(text).ok THEN json_loads(text).value
    ELSE IF find(text, "{") >= 0 /\ rfind(text, "}") + 1 > find(text, "{")
            /\ json_loads(EmbeddedObject(text)).ok
         THEN json_loads(EmbeddedObject(text)).value
         ELSE RawRecord(text)

\* C11: for every text the structured-record call returns, the extraction
\* yields a key-to-value mapping (the object the fence-stripped text parses
\* to, else the object its first-{ to last-} substring parses to, else the
\* record {raw, parse_error}), and the StyleGuide is built from it: the
\* pipeline is not aborted.
C11_ExtractionYieldsMapping ==
    Synthesized =>
        /\ structured = C11_Expected(StripFence(json_text))
        /\ structured.kind = "dict"
        /\ synth = "returned"

----------------------------------------------------------------------------
(* Properties of the chunker (under SpecChunker) *)

RECURSIVE SumTokens(_)
SumTokens(chunk) ==
    IF chunk = <<>> THEN 0 ELSE token_counter(Head(chunk)) + SumTokens(Tail(chunk))

RECURSIVE Concat(_)
Concat(lists) == IF lists = <<>> THEN <<>> ELSE Head(lists) \o Concat(Tail(lists))

\* C12: every chunk returned by chunk_articles is non-empty, holds at most
\* item-cap articles, and either its summed token estimate is within the
\* token budget or it holds exactly one article.
C12_ChunksWithinLimits ==
    chunker = "returned" =>
        \A c \in 1..Len(chunks) :
            /\ chunks[c] # <<>>
            /\ Len(chunks[c]) <= max_per_chunk
            /\ SumTokens(chunks[c]) <= max_tokens \/ Len(chunks[c]) = 1

C12_Witness ==
    /\ chunker = "returned"
    /\ \E c \in 1..Len(chunks) : SumTokens(chunks[c]) > max_tokens
    /\ \E c \in 1..Len(chunks) : Len(chunks[c]) = max_per_chunk /\ max_per_chunk > 1
    /\ \E c \in 1..Len(chunks) : Len(chunks[c]) < max_per_chunk
                                   /\ SumTokens(chunks[c]) = max_tokens

\* C13: the chunks returned by chunk_articles, concatenated in order, are
\* exactly the input list: every article is in exactly one chunk, in its
\* place, also when it alone exceeds the token budget.
C13_ChunksConcatenateToInput ==
    chunker = "returned" => Concat(chunks) = docs

C13_Witness ==
    /\ chunker = "returned"
    /\ Len(docs) = MaxDocs
    /\ Len(chunks) >= 2
    /\ \E k \in 1..Len(docs) : token_counter(docs[k]) > max_tokens
    /\ Len(chunks[Len(chunks)]) = 1

----------------------------------------------------------------------------
(* Properties of the sampler (under SpecSampler) *)

C15_EmptyInputRaises ==
    /\ sampler = "returned" => CorpusSize(corpus) > 0
    /\ chunker = "returned" => docs # <<>>

----------------------------------------------------------------------------
(* Properties of example selection and retrieval (under SpecExamples) *)

ExampleIds == {examples[k].article_id : k \in 1..Len(examples)}

\* of an article compared by the last find_similar: its similarity, and the
\* place of its example in the order of cluster_id
SimilarityOf(id) == retrieval.similarities[IndexOf(retrieval.compared, id, 1)]
ClusterPlaceOf(id) == IndexOf(get_example_article_ids(examples), id, 1)

\* C16: find_similar returns the examples of highest cosine similarity to
\* the input, listed by descending similarity, those of equal similarity in
\* their cluster order.
C16_MostSimilarFirst ==
    op = "found" =>
        LET found == retrieval.found
        IN  /\ Range(found) \subseteq Range(retrieval.compared)
            /\ \A x \in Range(found) :
                  \A y \in Range(retrieval.compared) \ Range(found) :
                      SimilarityOf(x) >= SimilarityOf(y)
            /\ \A a, b \in 1..Len(found) :
                  a < b =>
                      \/ SimilarityOf(found[a]) > SimilarityOf(found[b])
                      \/ /\ SimilarityOf(found[a]) = SimilarityOf(found[b])
                         /\ ClusterPlaceOf(found[a]) < ClusterPlaceOf(found[b])

\* C17: for every n >= 0, find_similar returns exactly min(n, E) articles,
\* E being the number of stored examples that are in the model: never more
\* than n.
C17_ReturnsMinOfNAndExamples ==
    op = "found" =>
        Len(retrieval.found) = Min(retrieval.requested, Len(retrieval.compared))

\* C19: a call of find_similar, however it ends, leaves the persisted
\* model and the stored examples as they are, and the model in memory too
\* (a selector that holds none loads the persisted one, as it is); the
\* vectors it compares the input to are those of articles that are examples
\* in the store at the call.
C19_RetrievalKeepsModel ==
    [][op' \in {"found", "find_raised"} =>
          /\ model_file' = model_file
          /\ examples' = examples
          /\ loaded.fitted => loaded' = loaded
          /\ ~loaded.fitted => loaded' \in {loaded, model_file}
          /\ op' = "found" =>
                /\ Range(retrieval'.compared) \subseteq ExampleIds
                /\ Range(retrieval'.compared) \subseteq Range(loaded'.article_ids)
                /\ Range(retrieval'.compared) # {}]_vars

C19_Witness ==
    /\ op = "found"
    /\ model_file.fitted
    /\ loaded # model_file
    /\ Len(loaded.article_ids) > Len(retrieval.compared)

\* C20: when build_clusters has returned, the stored examples are exactly
\* those the run selected, whatever examples were stored before.
C20_ExamplesReplaced ==
    op = "built" => examples = selection.returned

C20_Witness ==
    /\ op = "built"
    /\ selection.deleted > Len(examples)
    /\ examples # <<>>

----------------------------------------------------------------------------
(* Properties of the rewrite engine (under SpecRewrite) *)

ProfileAbsent == ~md_file.exists /\ style_guide = <<>>
Rewritten == rewrite \notin {"off", "ready"}

\* C18: a rewrite fails with an error, and the engine issues no
\* generation-service call, whenever the style profile is absent (no guide
\* file and no stored guide), the persisted model is absent, or no examples
\* exist.
C18_RewriteFailsWithoutArtefacts ==
    Rewritten /\ (ProfileAbsent \/ ~model_file.fitted \/ examples = <<>>) =>
        /\ rewrite \in {"style_guide", "model", "examples"}
        /\ ProfileAbsent => rewrite = "style_guide"
        /\ llm_calls = 0

C18_Witness ==
    /\ rewrite = "examples"
    /\ ~ProfileAbsent
    /\ model_file.fitted
    /\ llm_calls = 0

----------------------------------------------------------------------------
(* Properties of the stored guide and the guide file (under SpecGuide) *)

\* the profile created last: the row save_style_guide inserted last
MostRecentProfile == style_guide[Len(style_guide)]

\* C21: the authoritative style profile is the one created last: once a
\* run has saved a profile, get_latest_style_guide returns that profile, and
\* a rewrite made while no run is in progress (the last run completed,
\* failed or was interrupted) that reaches the generation call has loaded
\* the text of the profile created last.
C21_RewriteUsesLatestProfile ==
    [][/\ (pc = "synth_json" /\ pc' = "save_files") =>
             get_latest_style_guide(style_guide') = StyleGuide(md, Len(analyses))
       /\ (llm_calls' = llm_calls + 1 /\ ~Running) =>
             style_guide_md' = MostRecentProfile.markdown]_vars

----------------------------------------------------------------------------
(* Properties of build_clusters (under SpecExamples) *)

Built == op = "built"
Members(cluster_id) ==
    {j \in DOMAIN selection.labels : selection.labels[j] = cluster_id}
ExamplesOf(cluster_id) ==
    {e \in DOMAIN selection.returned : selection.returned[e].cluster_id = cluster_id}
RowOf(article_id) == IndexOf(get_all_articles(articles), article_id, 1)

\* C22: build_clusters uses k = min(configured target, corpus size)
\* clusters; it yields one example for each cluster that has members and none
\* for an empty one; each example is a member of its cluster whose similarity
\* to the centroid is the highest among the members; so there are at most k
\* examples and no article is an example twice.  The examples stored are the
\* ones returned.
C22_OneRepresentativePerCluster ==
    Built =>
        LET k == Min(MaxClusters, Cardinality(articles))
            returned == selection.returned
        IN  /\ Len(selection.labels) = Cardinality(articles)
            /\ \A j \in DOMAIN selection.labels : selection.labels[j] \in 0..(k - 1)
            /\ \A c \in 0..(k - 1) :
                   Cardinality(ExamplesOf(c)) = IF Members(c) = {} THEN 0 ELSE 1
            /\ \A e \in DOMAIN returned :
                   /\ returned[e].cluster_id \in 0..(k - 1)
                   /\ RowOf(returned[e].article_id) \in Members(returned[e].cluster_id)
                   /\ \A m \in Members(returned[e].cluster_id) :
                          selection.distances[m] <=
                              selection.distances[RowOf(returned[e].article_id)]
            /\ Len(returned) <= k
            /\ \A e, f \in DOMAIN returned :
                   e # f => returned[e].article_id # returned[f].article_id
            /\ examples = returned

\* an empty cluster is skipped and the representative of the other is not
\* its first member
C22_Witness ==
    /\ Built
    /\ Members(1) = {}
    /\ Cardinality(Members(0)) >= 2
    /\ Len(selection.returned) = 1
    /\ RowOf(selection.returned[1].article_id) # 1

----------------------------------------------------------------------------
(* Properties of the backoff delays (under SpecComplete) *)

\* min(base_delay * 2^a, max_delay) at the 0-based attempt index a
ExpectedBackoff(a) ==
    IF BASE_DELAY * Pow2(a) <= MAX_DELAY THEN BASE_DELAY * Pow2(a) ELSE MAX_DELAY

\* C23: the delay slept at the 0-based attempt index a is
\* min(base_delay * 2^a, max_delay) for a server error; for a rate-limit
\* answer it is that value, or the retry-after hint when a hint is present
\* and larger: a hint never lowers the delay.
C23_DelayFormula ==
    /\ Len(delays) <= Len(responses)
    /\ \A k \in 1..Len(delays) :
          LET hint == responses[k].retry_after
              computed == ExpectedBackoff(k - 1)
          IN  /\ delays[k] >= computed
              /\ IF responses[k].status = 429 /\ hint # NoHint /\ hint[1] > computed
                 THEN delays[k] = hint[1]
                 ELSE delays[k] = computed

\* a hint below the computed delay, a hint above it and a server error, all
\* slept on in one call
C23_Witness ==
    /\ \E k \in 1..Len(delays) :
          /\ responses[k].retry_after # NoHint
          /\ responses[k].retry_after[1] < delays[k]
    /\ \E k \in 1..Len(delays) :
          /\ responses[k].retry_after # NoHint
          /\ responses[k].retry_after[1] = delays[k]
          /\ delays[k] > MAX_DELAY
    /\ \E k \in 1..Len(delays) :
          /\ responses[k].status >= 500
          /\ delays[k] = ExpectedBackoff(k - 1)

----------------------------------------------------------------------------
(* Properties of the sequential fallback (under Spec) *)

InFallback == pc = "fallback"
FallbackFailed == pc = "failed" /\ failure = "fallback"

\* C24: fallback_sequential issues the requests in input order, one
\* complete call each; it sleeps the pacing interval once after each request
\* that succeeded, except after the last request: n successful requests give
\* n - 1 pacing sleeps.
C24_FallbackInOrderAndPaced ==
    /\ (InFallback \/ FallbackReturned \/ FallbackFailed) =>
          /\ Len(issued) <= Len(requests)
          /\ issued = SubSeq(requests, 1, Len(issued))
    /\ InFallback => Len(issued) = i /\ paces = i
    /\ FallbackReturned =>
          /\ Len(issued) = Len(requests)
          /\ paces = Len(requests) - 1
    /\ FallbackFailed => paces = Len(issued) - 1

C24_Witness ==
    /\ FallbackReturned
    /\ Len(requests) >= 2
    /\ issued = requests
    /\ paces = Len(requests) - 1

----------------------------------------------------------------------------
(* Properties of wait_for_batch (under SpecWait) *)

Waiting == pc = "batch_poll"
Fetching == pc = "batch_collect"
WaitEnded == BatchReturned \/ batch_error

----------------------------------------------------------------------------
(* Properties of the allocation of stratified_sample (under SpecSampler) *)

Sampled == sampler = "returned"
NonEmptyCategories == {cat \in Categories : corpus[cat] > 0}
Target == target_n(CorpusSize(corpus), sample_fraction)

\* q = min(max(1, round(T * m / N)), m) for the category cat
Quota(cat) ==
    LET r == round(Target * corpus[cat], CorpusSize(corpus))
        atleast1 == IF r < 1 THEN 1 ELSE r
    IN  IF atleast1 > corpus[cat] THEN corpus[cat] ELSE atleast1

Quotas == [cat \in Categories |-> IF corpus[cat] > 0 THEN Quota(cat) ELSE 0]

\* C26: before the overshoot correction every category of size m
\* contributes exactly its quota q = min(max(1, round(T * m / N)), m) of
\* distinct articles of its own, all of them when q = m, so that the size of
\* the selection before the correction is the sum of the quotas.
C26_CategoriesContributeQuota ==
    Sampled /\ CorpusSize(corpus) > 0 =>
        /\ \A cat \in NonEmptyCategories :
              \A picked \in FromCategory(cat, corpus[cat], Target, CorpusSize(corpus)) :
                  /\ Cardinality(picked) = Quota(cat)
                  /\ picked \subseteq {<<cat, k>> : k \in 1..corpus[cat]}
        /\ allocated = SumOver(Quotas, Categories)

\* a category is sampled by slices and the selection overshoots the target
C26_Witness ==
    /\ Sampled
    /\ \E cat \in NonEmptyCategories : Quota(cat) < corpus[cat]
    /\ allocated = SumOver(Quotas, Categories)
    /\ allocated > Target
    /\ Cardinality(sample) = Target

\* C27: when the target count is at least the size of the corpus,
\* stratified_sample returns every article of the corpus, each once,
\* however the corpus is split into categories.
C27_WholeCorpusWhenTargetCoversIt ==
    Sampled /\ Target >= CorpusSize(corpus) =>
        /\ sample = Articles(corpus)
        /\ Cardinality(sample) = CorpusSize(corpus)
        /\ allocated = CorpusSize(corpus)

\* a corpus of several categories, smaller than the target, and a corpus as
\* large as the target
C27_Witness ==
    /\ Sampled
    /\ Cardinality(NonEmptyCategories) >= 2
    /\ CorpusSize(corpus) \in {MIN_TARGET - 1, Target}
    /\ sample = Articles(corpus)

----------------------------------------------------------------------------
(* Properties of the persisted chunk analyses (under Spec) *)

RunCompleted == pc = "done"
RowsOfChunk(chunk_id) ==
    {k \in 1..Len(chunk_analyses) : chunk_analyses[k].chunk_id = chunk_id}

\* C28: after an analysis run that completes, fresh or resumed and
\* whatever runs or crashes came before, the persisted chunk analyses are
\* one per chunk of the sample of that run (chunk ids 0..k-1, none missing,
\* none left over) and the chunk count of the profile it saved is k.
C28_OneAnalysisPerChunkOfRun ==
    RunCompleted =>
        /\ Len(chunk_analyses) = sample_chunks
        /\ \A c \in 0..(sample_chunks - 1) : Cardinality(RowsOfChunk(c)) = 1
        /\ style_guide # <<>>
        /\ get_latest_style_guide(style_guide).n_chunks = sample_chunks

----------------------------------------------------------------------------
(* Properties of the examples and the model in use (under SpecExamples) *)

\* C29: whenever find_similar has compared and returned, the examples it
\* read and the model it used are of the same run: the article id of every
\* stored example is in the id list of the model the selector holds.
C29_ExamplesWithinModelInUse ==
    op = "found" =>
        /\ loaded.fitted
        /\ ExampleIds \subseteq Range(loaded.article_ids)

----------------------------------------------------------------------------
(* Properties of the last attempt of a complete call (under SpecComplete) *)

CallEnded == cstate \in {"returned", "raised"}

\* C30: within one complete call every backoff sleep is followed by a
\* further attempt: when the call has ended, it has slept fewer times than
\* it has called the service, and no delay follows the failure of the
\* MAX_RETRIES-th attempt.
C30_NoSleepAfterLastAttempt ==
    CallEnded => Len(delays) < Len(responses)
====
